---- MODULE Spec2Model ----
(***************************************************************************)
(* Model of screenshot-manager.py: the ScreenshotList collection with its  *)
(* two sources (watched folder, list file), the watchdog observer thread   *)
(* that delivers file-system events to it, and the event handler classes.  *)
(*                                                                         *)
(* Two threads touch the collection: the interactive (Qt) thread, which    *)
(* runs ScreenshotList.__init__ and MainWindow.reload, and the observer    *)
(* thread of watchdog, which runs the handler callbacks.  The code takes   *)
(* no lock, so the steps of the two threads interleave freely.             *)
(***************************************************************************)
EXTENDS Integers, Sequences, FiniteSets, TLC

\* ------------------------------------------------------------------ bounds
NumPaths == 3          \* file paths 1..NumPaths
MaxTicks == 1          \* the clock advances at most this many times
MaxQueue == 1          \* capacity of the observer's event queue in the model
MaxReloads == 2        \* settings dialogs accepted (MainWindow.reload calls)
MaxFsOps == 3          \* file-system changes made by the environment
MaxCoord == 1          \* image positions are (c, c) with c in 0..MaxCoord
MaxOps == 2            \* graphics items one editor creates
MaxSegs == 1           \* line segments of one pen stroke

\* --------------------------------------------------------------- constants
FreshnessWindow == 86400   \* line 302: now - 86400
TickSeconds == FreshnessWindow + 1   \* seconds the model clock advances per tick

Paths == 1..NumPaths
Absent == -1               \* disk[p] = Absent: no file at path p
NoFile == {0}              \* listFile = NoFile: the list file does not exist
Blank == 0                 \* a line of the list file that is empty after strip()

\* Paths 1 and 2 are files below the watched folder, the others lie outside it.
InFolder(p) == p \in {1, 2}
\* The paths that list files name: one below the folder, the rest outside it.
ListPaths == Paths \ {1}
\* The list files written: lines naming some of ListPaths, and an empty line.
ListContents == {S \cup {Blank} : S \in SUBSET ListPaths}
\* QImage(path) decodes the file or yields a null image; it never raises.
\* Path 1 holds data that is no image (any file of the folder is walked).
IsImage(p) == p # 1

VARIABLES
    now,            \* time.time()
    disk,           \* disk[p]: mtime of the file at p, or Absent
    listFile,       \* NoFile, or the set of stripped lines of the list file
    fsOps,          \* number of file-system changes so far (bounded)
    cfgFolderUse,   \* Config.screenshot_source_folder_use
    cfgListUse,     \* Config.screenshot_source_filelist_use
    items,          \* the rows of the QListWidget: sequence of ScreenshotListItem
    old_filelist,   \* ScreenshotList.old_filelist
    watches,        \* watches scheduled on the observer: subset of {"folder","list"}
    started,        \* observer.start() has been called
    queue,          \* the observer's event queue
    reloads,        \* number of MainWindow.reload calls so far (bounded)
    ctx,            \* what the interactive thread runs: "ctor" or "reload"
    mpc,            \* position of the interactive thread
    mret,           \* where add_file returns to on the interactive thread
    mArg,           \* argument of the add_file the interactive thread is in
    mItem,          \* the ScreenshotListItem built by that add_file
    scanNow,        \* `now` of load_screenshots (line 296)
    walkTodo,       \* files os.walk listed that the loop has not reached yet
    addTodo,        \* added_files not yet iterated (line 339)
    remTodo,        \* removed_files not yet iterated (line 342)
    mainError,      \* the exception that ended the interactive thread's last operation
    wpc,            \* position of the observer thread
    wCalls,         \* callbacks the current handler method still has to make
    wItem,          \* the ScreenshotListItem built by the observer thread's add_file
    hnd,            \* a WatchdogFilesystemHandler under test: its three callbacks
    hLog,           \* callbacks that handler delivered for the last event
    hErr,           \* the last event's handler method raised
    hEvent,         \* the last event given to the handler under test
    changed,        \* ScreenshotEditor.changed
    edItems,        \* ScreenshotEditor.items: ids of the active graphics items
    redo_items,     \* ScreenshotEditor.redo_items
    mouse_pressed,  \* ScreenshotEditor.mouse_pressed
    previous_point, \* ScreenshotEditor.previous_point
    drawing_style,  \* ScreenshotEditor.drawing_style
    scene,          \* ids of the items of the QGraphicsScene above the photo, in insertion order
    shapes,         \* shapes[id]: kind and geometry of the graphics item id
    edErr,          \* the exception the editor's last handler raised
    edEvent,        \* the last event the editor handled: its type, whether the pointer was
                    \* over the photo, and mouse_pressed when it arrived
    items_changed,  \* the last handler emitted ScreenshotEditor.items_changed
    inProgress,     \* history: the item the current gesture's pointer-down created, or 0
    rt,             \* history: the undo/redo round trip under way
    tab_widget,     \* MainWindow.tab_widget: its pages in tab order, ListTab first
    screenshot_tabs,\* MainWindow.screenshot_tabs: its keys in insertion order
    currentIndex,   \* tab_widget.currentIndex()
    edChanged,      \* edChanged[p]: the changed flag of the editor of image p
    wnd,            \* the main window: "open", "closing" and "asking" (inside closeEvent), "closed"
    closeTodo,      \* keys closeEvent has not reached yet (line 652)
    lastClose       \* the last close_tab call: its index, page, answer and result,
                    \* and whether closeEvent made it

listVars == <<items, old_filelist>>
envVars == <<now, disk, listFile, fsOps>>
cfgVars == <<cfgFolderUse, cfgListUse>>
obsVars == <<watches, started, queue>>
mainVars == <<reloads, ctx, mpc, mret, mArg, mItem, scanNow, walkTodo, addTodo, remTodo, mainError>>
watcherVars == <<wpc, wCalls, wItem>>
handlerVars == <<hnd, hLog, hErr, hEvent>>
editorVars == <<changed, edItems, redo_items, mouse_pressed, previous_point, drawing_style,
                scene, shapes, edErr, edEvent, items_changed, inProgress, rt>>
appVars == <<listVars, envVars, cfgVars, obsVars, mainVars, watcherVars, handlerVars>>
windowVars == <<tab_widget, screenshot_tabs, currentIndex, edChanged, wnd, closeTodo, lastClose>>
vars == <<appVars, editorVars, windowVars>>

NoItem == [file_path |-> 0, timestamp |-> 0, image_ok |-> FALSE]


\* ------------------------------------------------------ ScreenshotListItem

\* ScreenshotListItem.__init__/load for a file that exists: QImage(path) gives
\* a null image for data that is no image, os.path.getmtime gives the mtime.
\* (load raises FileNotFoundError when the file is missing: see LoadRaises.)
ScreenshotListItem(p) ==
    [file_path |-> p, timestamp |-> disk[p], image_ok |-> IsImage(p)]

\* os.path.getmtime(file_path) raises when there is no file at file_path.
LoadRaises(p) == disk[p] = Absent

\* ScreenshotListItem.__lt__: an item is "less" when it is newer.
ItemLessThan(a, b) == a.timestamp > b.timestamp

\* ------------------------------------------------------------ QListWidget

\* takeItem(row): the sequence without its element at index i.
SeqWithout(s, i) ==
    [k \in 1..(Len(s) - 1) |-> IF k < i THEN s[k] ELSE s[k + 1]]

RECURSIVE SortItems(_)
\* sortItems(): QListWidget sorts ascending by the items' operator<, with a
\* sort that is not stable.  Every arrangement in which no item is less than
\* an item before it is a possible outcome.
SortItems(s) ==
    IF s = <<>> THEN {<<>>}
    ELSE LET firsts == {i \in DOMAIN s : \A j \in DOMAIN s : ~ItemLessThan(s[j], s[i])}
         IN UNION {{<<s[i]>> \o t : t \in SortItems(SeqWithout(s, i))} : i \in firsts}

\* The first row whose item has the given file_path, 0 when there is none.
FirstRow(s, p) ==
    IF \E i \in DOMAIN s : s[i].file_path = p
    THEN CHOOSE i \in DOMAIN s : /\ s[i].file_path = p
                                 /\ \A j \in 1..(i - 1) : s[j].file_path # p
    ELSE 0

\* A remove_file whose takeItem and sortItems are not guarded by the match:
\* without a match the row the loop ended on (the last one) is taken.
RemoveFileTakesLast(s, p) ==
    IF s = <<>> THEN {s}
    ELSE SortItems(SeqWithout(s, IF FirstRow(s, p) = 0 THEN Len(s) ELSE FirstRow(s, p)))

\* ScreenshotList.remove_file: the possible row sequences after the call.
\* The first matching row is taken and the rows are sorted; without a match
\* nothing is touched.
RemoveFile(s, p) ==
    IF FirstRow(s, p) = 0 THEN {s} ELSE SortItems(SeqWithout(s, FirstRow(s, p)))

\* The second half of ScreenshotList.add_file: addItem(item); sortItems().
AddItem(s, item) == SortItems(Append(s, item))

PathsOf(s) == {s[i].file_path : i \in DOMAIN s}

\* ------------------------------------------------- watchdog event handlers

None == "None"

NoEvent == [kind |-> "none", is_directory |-> FALSE, src_path |-> 0, dest_path |-> 0]

\* A call the handler makes: the callable stored in the slot, and its argument.
Call(fn, arg) == [fn |-> fn, arg |-> arg]

\* WatchdogFilesystemHandler.on_created
on_created(h, event) ==
    IF event.is_directory THEN <<>>
    ELSE IF h.on_created = None THEN <<>>
    ELSE <<Call(h.on_created, event.src_path)>>

\* WatchdogFilesystemHandler.on_deleted
on_deleted(h, event) ==
    IF event.is_directory THEN <<>>
    ELSE IF h.on_deleted = None THEN <<>>
    ELSE <<Call(h.on_deleted, event.src_path)>>

\* WatchdogFilesystemHandler.on_moved: the guard reads on_modified_callback,
\* the calls go to on_deleted_callback and on_created_callback.
on_moved(h, event) ==
    IF event.is_directory THEN <<>>
    ELSE IF h.on_modified = None THEN <<>>
    ELSE <<Call(h.on_deleted, event.src_path), Call(h.on_created, event.dest_path)>>

\* WatchdogFilesystemHandler.on_modified
on_modified(h, event) ==
    IF event.is_directory THEN <<>>
    ELSE IF h.on_modified = None THEN <<>>
    ELSE <<Call(h.on_modified, event.src_path)>>

\* FileSystemEventHandler.dispatch: the method for the event's kind.
Dispatch(h, event) ==
    CASE event.kind = "created" -> on_created(h, event)
      [] event.kind = "deleted" -> on_deleted(h, event)
      [] event.kind = "moved" -> on_moved(h, event)
      [] event.kind = "modified" -> on_modified(h, event)

\* The handler reload_file_watcher schedules for the folder (line 315).
FolderHandler ==
    [on_created |-> "add_file", on_modified |-> "add_file", on_deleted |-> "remove_file"]


\* ------------------------------------------------------------ environment

Running == mpc # "crashed"

\* The folder's emitter thread runs while a watch is scheduled on a started observer.
Watching == "folder" \in watches /\ started

FileEvent(kind, src, dest) ==
    [kind |-> kind, is_directory |-> FALSE, src_path |-> src, dest_path |-> dest]

\* The emitter puts the event of a change below the folder on the queue.
Emit(event) ==
    IF Watching THEN queue' = Append(queue, event) ELSE queue' = queue

EnvStep ==
    /\ Running
    /\ fsOps < MaxFsOps
    /\ fsOps' = fsOps + 1
    /\ Watching => Len(queue) < MaxQueue
    /\ UNCHANGED <<listVars, cfgVars, watches, started, mainVars, watcherVars, handlerVars, editorVars, windowVars, now>>

\* A file appears (written now).
FsCreate ==
    \E p \in Paths :
        /\ EnvStep
        /\ disk[p] = Absent
        /\ disk' = [disk EXCEPT ![p] = now]
        /\ IF InFolder(p) THEN Emit(FileEvent("created", p, 0)) ELSE queue' = queue
        /\ UNCHANGED listFile

\* A file is written again.
FsModify ==
    \E p \in Paths :
        /\ EnvStep
        /\ disk[p] # Absent
        /\ disk' = [disk EXCEPT ![p] = now]
        /\ IF InFolder(p) THEN Emit(FileEvent("modified", p, 0)) ELSE queue' = queue
        /\ UNCHANGED listFile

\* A file is deleted.
FsDelete ==
    \E p \in Paths :
        /\ EnvStep
        /\ disk[p] # Absent
        /\ disk' = [disk EXCEPT ![p] = Absent]
        /\ IF InFolder(p) THEN Emit(FileEvent("deleted", p, 0)) ELSE queue' = queue
        /\ UNCHANGED listFile

\* A file is renamed within the folder; it keeps its mtime.
FsMove ==
    \E p \in Paths, q \in Paths :
        /\ EnvStep
        /\ InFolder(p) /\ InFolder(q) /\ p # q
        /\ disk[p] # Absent /\ disk[q] = Absent
        /\ disk' = [disk EXCEPT ![p] = Absent, ![q] = disk[p]]
        /\ Emit(FileEvent("moved", p, q))
        /\ UNCHANGED listFile

\* A directory is created below the watched folder.
FsMkdir ==
    /\ EnvStep
    /\ Watching
    /\ Emit([kind |-> "created", is_directory |-> TRUE, src_path |-> 0, dest_path |-> 0])
    /\ UNCHANGED <<disk, listFile>>

\* The list file is (re)written, or deleted.
FsWriteList ==
    \E c \in ListContents \cup {NoFile} :
        /\ Running
        /\ fsOps < MaxFsOps
        /\ fsOps' = fsOps + 1
        /\ c # listFile
        /\ listFile' = c
        /\ UNCHANGED <<listVars, cfgVars, obsVars, mainVars, watcherVars, handlerVars, editorVars, windowVars, now, disk>>

\* Time passes.
Tick ==
    /\ Running
    /\ now < MaxTicks * TickSeconds
    /\ now' = now + TickSeconds
    /\ UNCHANGED <<listVars, cfgVars, obsVars, mainVars, watcherVars, handlerVars, editorVars, windowVars, disk, listFile, fsOps>>


\* ------------------------------------------------- the interactive thread

\* An exception leaves the operation.  Raised below ScreenshotList.__init__ it
\* ends the program (MainWindow() fails in main); raised below the slot
\* MainWindow.reload it is printed and the event loop goes on.
Raise(error) ==
    /\ mainError' = error
    /\ mpc' = IF ctx = "ctor" THEN "crashed" ELSE "idle"

\* SettingsWindow.save accepted, then the slot MainWindow.reload starts.
\* save() refuses a list source whose file does not exist (lines 466-469).
SettingsAccepted ==
    \E fu \in BOOLEAN, lu \in BOOLEAN :
        /\ mpc = "idle"
        /\ reloads < MaxReloads
        /\ lu => listFile # NoFile
        /\ cfgFolderUse' = fu
        /\ cfgListUse' = lu
        /\ reloads' = reloads + 1
        /\ ctx' = "reload"
        /\ mpc' = "load"
        /\ mainError' = "none"
        /\ UNCHANGED <<listVars, envVars, obsVars, watcherVars, handlerVars, editorVars, windowVars,
                       mret, mArg, mItem, scanNow, walkTodo, addTodo, remTodo>>

\* load_screenshots, lines 293-298: clear(), then the walk lists the folder.
LoadStart ==
    /\ mpc = "load"
    /\ items' = <<>>
    /\ IF cfgFolderUse
       THEN /\ scanNow' = now
            /\ walkTodo' = {p \in Paths : InFolder(p) /\ disk[p] # Absent}
            /\ mpc' = "walk"
       ELSE /\ mpc' = "filelist"
            /\ UNCHANGED <<scanNow, walkTodo>>
    /\ UNCHANGED <<old_filelist, envVars, cfgVars, obsVars, watcherVars, handlerVars, editorVars, windowVars,
                   reloads, ctx, mret, mArg, mItem, addTodo, remTodo, mainError>>

\* A scan that skips no file for its age.
NeverTooOld(mtime, scan) == FALSE

\* load_screenshots, line 302: the file is older than the window at scan time.
TooOld(mtime, scan) == mtime < scan - FreshnessWindow

\* load_screenshots, lines 299-305: one file of the walk.  getmtime raises for
\* a file that is gone; a file older than the window is skipped.
WalkStep ==
    /\ mpc = "walk"
    /\ IF walkTodo = {}
       THEN /\ mpc' = "filelist"
            /\ UNCHANGED <<walkTodo, mret, mArg, mainError>>
       ELSE \E f \in walkTodo :
            /\ walkTodo' = walkTodo \ {f}
            /\ IF disk[f] = Absent
               THEN /\ Raise("getmtime_walk")
                    /\ UNCHANGED <<mret, mArg>>
               ELSE IF TooOld(disk[f], scanNow)
               THEN UNCHANGED <<mpc, mret, mArg, mainError>>
               ELSE /\ mpc' = "add_file"
                    /\ mret' = "walk"
                    /\ mArg' = f
                    /\ UNCHANGED mainError
    /\ UNCHANGED <<listVars, envVars, cfgVars, obsVars, watcherVars, handlerVars, editorVars, windowVars,
                   reloads, ctx, mItem, scanNow, addTodo, remTodo>>

\* add_file, lines 346-347 up to the built item: remove_file(file_path), then
\* ScreenshotListItem(file_path), which raises when the file is gone.
MainAddFile ==
    /\ mpc = "add_file"
    /\ items' \in RemoveFile(items, mArg)
    /\ IF LoadRaises(mArg)
       THEN /\ Raise("getmtime_load")
            /\ UNCHANGED mItem
       ELSE /\ mItem' = ScreenshotListItem(mArg)
            /\ mpc' = "add_item"
            /\ UNCHANGED mainError
    /\ UNCHANGED <<old_filelist, envVars, cfgVars, obsVars, watcherVars, handlerVars, editorVars, windowVars,
                   reloads, ctx, mret, mArg, scanNow, walkTodo, addTodo, remTodo>>

\* add_file, lines 347-348: addItem(item); sortItems().
MainAddItem ==
    /\ mpc = "add_item"
    /\ items' \in AddItem(items, mItem)
    /\ mItem' = NoItem
    /\ mpc' = mret
    /\ UNCHANGED <<old_filelist, envVars, cfgVars, obsVars, watcherVars, handlerVars, editorVars, windowVars,
                   reloads, ctx, mret, mArg, scanNow, walkTodo, addTodo, remTodo, mainError>>

\* load_screenshots, line 307: the list source is read when it is enabled and
\* its file exists.
FilelistCheck ==
    /\ mpc = "filelist"
    /\ mpc' = IF cfgListUse /\ listFile # NoFile THEN "update" ELSE "loaded"
    /\ UNCHANGED <<listVars, envVars, cfgVars, obsVars, watcherVars, handlerVars, editorVars, windowVars,
                   reloads, ctx, mret, mArg, mItem, scanNow, walkTodo, addTodo, remTodo, mainError>>

\* update_from_filelist, lines 323-332: the lines that are not empty and name
\* an existing file; no line when the list file does not exist.
ReadFilelist ==
    IF listFile = NoFile THEN {}
    ELSE {line \in listFile : line # Blank /\ disk[line] # Absent}

\* update_from_filelist, lines 323-337.
UpdateFromFilelist ==
    /\ mpc = "update"
    /\ addTodo' = ReadFilelist \ old_filelist
    /\ remTodo' = old_filelist \ ReadFilelist
    /\ old_filelist' = ReadFilelist
    /\ mpc' = "added_files"
    /\ UNCHANGED <<items, envVars, cfgVars, obsVars, watcherVars, handlerVars, editorVars, windowVars,
                   reloads, ctx, mret, mArg, mItem, scanNow, walkTodo, mainError>>

\* update_from_filelist, lines 339-340: add_file for one added file.
UpdateAdded ==
    /\ mpc = "added_files"
    /\ IF addTodo = {}
       THEN /\ mpc' = "removed_files"
            /\ UNCHANGED <<addTodo, mret, mArg>>
       ELSE \E f \in addTodo :
            /\ addTodo' = addTodo \ {f}
            /\ mpc' = "add_file"
            /\ mret' = "added_files"
            /\ mArg' = f
    /\ UNCHANGED <<listVars, envVars, cfgVars, obsVars, watcherVars, handlerVars, editorVars, windowVars,
                   reloads, ctx, mItem, scanNow, walkTodo, remTodo, mainError>>

\* update_from_filelist, lines 342-343: remove_file for one removed file.
UpdateRemoved ==
    /\ mpc = "removed_files"
    /\ IF remTodo = {}
       THEN /\ mpc' = "loaded"
            /\ UNCHANGED <<items, remTodo>>
       ELSE \E f \in remTodo :
            /\ remTodo' = remTodo \ {f}
            /\ items' \in RemoveFile(items, f)
            /\ UNCHANGED mpc
    /\ UNCHANGED <<old_filelist, envVars, cfgVars, obsVars, watcherVars, handlerVars, editorVars, windowVars,
                   reloads, ctx, mret, mArg, mItem, scanNow, walkTodo, addTodo, mainError>>

\* reload_file_watcher: unschedule_all(); the folder watch is scheduled; the
\* argument self.update_filelist of the list watch names no attribute of
\* ScreenshotList, so the statement raises AttributeError before schedule();
\* observer.start() raises RuntimeError on a thread that was started before.
ReloadFileWatcher ==
    /\ mpc = "loaded"
    /\ watches' = IF cfgFolderUse THEN {"folder"} ELSE {}
    /\ IF cfgListUse
       THEN /\ Raise("update_filelist")
            /\ UNCHANGED started
       ELSE IF started
       THEN /\ Raise("observer_start")
            /\ UNCHANGED started
       ELSE /\ started' = TRUE
            /\ mpc' = "idle"
            /\ UNCHANGED mainError
    /\ UNCHANGED <<listVars, envVars, cfgVars, queue, watcherVars, handlerVars, editorVars, windowVars,
                   reloads, ctx, mret, mArg, mItem, scanNow, walkTodo, addTodo, remTodo>>

\* --------------------------------------------------- the observer thread

\* BaseObserver.dispatch_events: the next event of the queue goes to the
\* handler of its watch, if that watch is still scheduled.
ObserverDispatch ==
    /\ Running
    /\ started
    /\ wpc = "idle" /\ wCalls = <<>>
    /\ queue # <<>>
    /\ queue' = Tail(queue)
    /\ wCalls' = IF "folder" \in watches THEN Dispatch(FolderHandler, Head(queue)) ELSE <<>>
    /\ UNCHANGED <<listVars, envVars, cfgVars, watches, started, mainVars, handlerVars, editorVars, windowVars, wpc, wItem>>

\* The handler method calls a callback: remove_file runs whole, add_file runs
\* up to the built item (lines 346-347).  An exception that leaves the callback
\* leaves BaseThread.run: the observer thread ends.
ObserverCall ==
    /\ Running
    /\ wpc = "idle" /\ wCalls # <<>>
    /\ LET call == Head(wCalls) IN
       IF call.fn = "remove_file"
       THEN /\ items' \in RemoveFile(items, call.arg)
            /\ wCalls' = Tail(wCalls)
            /\ UNCHANGED <<wpc, wItem>>
       ELSE IF call.fn = "add_file"
       THEN /\ items' \in RemoveFile(items, call.arg)
            /\ IF LoadRaises(call.arg)
               THEN /\ wpc' = "dead"
                    /\ wCalls' = <<>>
                    /\ UNCHANGED wItem
               ELSE /\ wItem' = ScreenshotListItem(call.arg)
                    /\ wpc' = "add_item"
                    /\ wCalls' = Tail(wCalls)
       ELSE /\ wpc' = "dead"
            /\ wCalls' = <<>>
            /\ UNCHANGED <<items, wItem>>
    /\ UNCHANGED <<old_filelist, envVars, cfgVars, obsVars, mainVars, handlerVars, editorVars, windowVars>>

\* add_file on the observer thread, lines 347-348: addItem(item); sortItems().
ObserverAddItem ==
    /\ Running
    /\ wpc = "add_item"
    /\ items' \in AddItem(items, wItem)
    /\ wItem' = NoItem
    /\ wpc' = "idle"
    /\ UNCHANGED <<old_filelist, envVars, cfgVars, obsVars, mainVars, handlerVars, editorVars, windowVars, wCalls>>

\* ------------------------------------------------------- ScreenshotEditor

\* The positions of the image surface that events name (its diagonal: a drag
\* from one to another changes both coordinates), and the position of an event whose
\* pointer is not over the image (photo.isUnderMouse() is false).
Points == {<<c, c>> : c \in 0..MaxCoord}
Outside == <<-1, -1>>
NoPoint == <<>>
\* A mouse event: whether the pointer is over the photo, and its scene position.
MouseEvents ==
    {[over |-> TRUE, pos |-> p] : p \in Points} \cup {[over |-> FALSE, pos |-> Outside]}

\* class DrawingStyle (lines 14-18)
DrawingStyle == {"none", "ellipse", "pen", "rect"}

\* The graphics item mousePressEvent creates for a style at a point:
\* createItemGroup([]) for the pen, addEllipse / addRect(x, y, 0, 0) else.
NewShape(style, point) ==
    IF style = "pen"
    THEN [kind |-> "pen", rect |-> <<0, 0, 0, 0>>, lines |-> <<>>]
    ELSE [kind |-> style, rect |-> <<point[1], point[2], 0, 0>>, lines |-> <<>>]

\* QGraphicsRectItem.setRect / QGraphicsEllipseItem.setRect(x, y, w, h): the
\* rectangle is stored as given.
setRect(shape, x, y, w, h) == [shape EXCEPT !.rect = <<x, y, w, h>>]

\* addToGroup(scene.addLine(x1, y1, x2, y2)) on an item group.
addToGroup(shape, from, to) ==
    [shape EXCEPT !.lines = Append(@, <<from[1], from[2], to[1], to[2]>>)]

Last(s) == s[Len(s)]
Front(s) == SubSeq(s, 1, Len(s) - 1)
\* A removeItem that leaves the item in the scene.
WithoutNothing(s, id) == s
Without(s, id) == SelectSeq(s, LAMBDA e : e # id)
\* The elements a list holds.
Ids(s) == {s[i] : i \in DOMAIN s}

\* ScreenshotEditor.__init__ (lines 65-89)
EditorInit ==
    /\ changed = FALSE
    /\ edItems = <<>>
    /\ redo_items = <<>>
    /\ mouse_pressed = FALSE
    /\ previous_point = NoPoint
    /\ drawing_style = "pen"
    /\ scene = <<>>
    /\ shapes = <<>>
    /\ edErr = "none"
    /\ edEvent = [type |-> "init", over |-> FALSE, pressed |-> FALSE]
    /\ items_changed = FALSE
    /\ inProgress = 0
    /\ rt = [phase |-> "edit", edItems |-> <<>>, scene |-> <<>>, shapes |-> <<>>, left |-> 0]

\* An add_item that leaves the redo list alone.
add_item_keeps_redo(item) ==
    /\ edItems' = Append(edItems, item)
    /\ UNCHANGED redo_items
    /\ items_changed' = TRUE

\* add_item (lines 163-166)
add_item(item) ==
    /\ edItems' = Append(edItems, item)
    /\ redo_items' = <<>>
    /\ items_changed' = TRUE

\* mousePressEvent (lines 102-114).  The base class's handler (line 114)
\* forwards the event to the scene, whose items take no mouse input.
mousePressEvent(event) ==
    IF event.over
    THEN /\ mouse_pressed' = TRUE
         /\ previous_point' = event.pos
         /\ IF drawing_style = "none"
            THEN /\ inProgress' = 0
                 /\ items_changed' = FALSE
                 /\ UNCHANGED <<edItems, redo_items, scene, shapes>>
            ELSE /\ shapes' = Append(shapes, NewShape(drawing_style, event.pos))
                 /\ scene' = Append(scene, Len(shapes) + 1)
                 /\ add_item(Len(shapes) + 1)
                 /\ inProgress' = Len(shapes) + 1
    ELSE /\ items_changed' = FALSE
         /\ UNCHANGED <<mouse_pressed, previous_point, edItems, redo_items, scene, shapes, inProgress>>

\* A release that, like the press, is only looked at over the photo.
mouseReleaseOverPhoto(event) ==
    IF event.over
    THEN /\ mouse_pressed' = FALSE
         /\ inProgress' = 0
    ELSE UNCHANGED <<mouse_pressed, inProgress>>

\* mouseReleaseEvent (lines 116-118).  Line 118 hands the event to the base
\* class's mousePressEvent, which forwards it to the scene; its items take no
\* mouse input.
mouseReleaseEvent(event) ==
    /\ mouse_pressed' = FALSE
    /\ inProgress' = 0

\* The exception mouseMoveEvent raises for the pen (lines 126-127) and for
\* ellipse and rect (lines 132-133): self.items[-1] of an empty list, and a
\* method the last item's class does not have (QGraphicsItemGroup has no
\* setRect, the ellipse and rectangle items have no addToGroup).
MoveRaises(style) ==
    IF edItems = <<>> THEN "IndexError"
    ELSE IF (style = "pen") # (shapes[Last(edItems)].kind = "pen") THEN "AttributeError"
    ELSE "none"

\* mouseMoveEvent, lines 122-136: the branch of the current drawing style is
\* applied to the last active item.
ExtendLast(event) ==
    /\ edErr' = MoveRaises(drawing_style)
    /\ IF MoveRaises(drawing_style) # "none"
       THEN UNCHANGED <<shapes, previous_point, changed>>
       ELSE IF drawing_style = "pen"
       THEN /\ shapes' = [shapes EXCEPT ![Last(edItems)] =
                             addToGroup(@, previous_point, event.pos)]
            /\ previous_point' = event.pos
            /\ changed' = TRUE
       ELSE /\ shapes' = [shapes EXCEPT ![Last(edItems)] =
                             setRect(@, previous_point[1], previous_point[2],
                                     event.pos[1] - previous_point[1],
                                     event.pos[2] - previous_point[2])]
            /\ changed' = TRUE
            /\ UNCHANGED previous_point

\* The move changes nothing.
MoveIgnored ==
    /\ edErr' = "none"
    /\ UNCHANGED <<shapes, previous_point, changed>>

\* A mouseMoveEvent that does not ask whether the pointer is over the photo.
mouseMoveAnywhere(event) ==
    IF mouse_pressed /\ drawing_style # "none"
    THEN ExtendLast(event)
    ELSE MoveIgnored

\* mouseMoveEvent (lines 120-138)
mouseMoveEvent(event) ==
    IF mouse_pressed /\ event.over /\ drawing_style # "none"
    THEN ExtendLast(event)
    ELSE MoveIgnored

\* An undo that drops the item instead of keeping it for redo.
undo_discards ==
    IF edItems # <<>>
    THEN /\ edItems' = Front(edItems)
         /\ scene' = Without(scene, Last(edItems))
         /\ items_changed' = TRUE
         /\ UNCHANGED redo_items
    ELSE /\ items_changed' = FALSE
         /\ UNCHANGED <<edItems, redo_items, scene>>

\* undo (lines 168-173)
undo ==
    IF edItems # <<>>
    THEN /\ edItems' = Front(edItems)
         /\ redo_items' = Append(redo_items, Last(edItems))
         /\ scene' = Without(scene, Last(edItems))
         /\ items_changed' = TRUE
    ELSE /\ items_changed' = FALSE
         /\ UNCHANGED <<edItems, redo_items, scene>>

\* A redo that puts the item back in front of the active items.
redo_prepends ==
    IF redo_items # <<>>
    THEN /\ redo_items' = Front(redo_items)
         /\ edItems' = <<Last(redo_items)>> \o edItems
         /\ scene' = <<Last(redo_items)>> \o scene
         /\ items_changed' = TRUE
    ELSE /\ items_changed' = FALSE
         /\ UNCHANGED <<edItems, redo_items, scene>>

\* redo (lines 175-180)
redo ==
    IF redo_items # <<>>
    THEN /\ redo_items' = Front(redo_items)
         /\ edItems' = Append(edItems, Last(redo_items))
         /\ scene' = Append(scene, Last(redo_items))
         /\ items_changed' = TRUE
    ELSE /\ items_changed' = FALSE
         /\ UNCHANGED <<edItems, redo_items, scene>>

Handled(type, event) ==
    /\ edEvent' = [type |-> type, over |-> event.over, pressed |-> mouse_pressed]
    /\ UNCHANGED <<appVars, windowVars>>

NoMouse == [over |-> FALSE, pos |-> Outside]

\* A mouse button goes down.  The editor creates MaxOps items in the model.
MousePress ==
    \E event \in MouseEvents :
        /\ (event.over /\ drawing_style # "none") => Len(shapes) < MaxOps
        /\ mousePressEvent(event)
        /\ edErr' = "none"
        /\ Handled("press", event)
        /\ UNCHANGED <<changed, drawing_style, rt>>

MouseRelease ==
    \E event \in MouseEvents :
        /\ mouseReleaseEvent(event)
        /\ edErr' = "none"
        /\ Handled("release", event)
        /\ items_changed' = FALSE
        /\ UNCHANGED <<changed, edItems, redo_items, previous_point, drawing_style, scene, shapes, rt>>

\* The pointer moves.  A pen stroke takes MaxSegs segments in the model.
MouseMove ==
    \E event \in MouseEvents :
        /\ (mouse_pressed /\ drawing_style = "pen" /\ MoveRaises("pen") = "none")
              => Len(shapes[Last(edItems)].lines) < MaxSegs
        /\ mouseMoveEvent(event)
        /\ Handled("move", event)
        /\ items_changed' = FALSE
        /\ UNCHANGED <<edItems, redo_items, mouse_pressed, drawing_style, scene, inProgress, rt>>

\* MainWindow.edit_undo (lines 711-712)
edit_undo ==
    /\ undo
    /\ edErr' = "none"
    /\ Handled("undo", NoMouse)
    /\ UNCHANGED <<changed, mouse_pressed, previous_point, drawing_style, shapes, inProgress>>

\* MainWindow.edit_redo (lines 714-715)
edit_redo ==
    /\ redo
    /\ edErr' = "none"
    /\ Handled("redo", NoMouse)
    /\ UNCHANGED <<changed, mouse_pressed, previous_point, drawing_style, shapes, inProgress>>

Undo == edit_undo /\ UNCHANGED rt

Redo == edit_redo /\ UNCHANGED rt

\* save (lines 155-158): the scene is rendered and written to image_path.
Save ==
    /\ changed' = FALSE
    /\ edErr' = "none"
    /\ Handled("save", NoMouse)
    /\ items_changed' = FALSE
    /\ UNCHANGED <<edItems, redo_items, mouse_pressed, previous_point, drawing_style,
                   scene, shapes, inProgress, rt>>

\* set_drawing_style (lines 182-183), from MainWindow.set_drawing_style and
\* MainWindow.tab_changed.
SetDrawingStyle ==
    \E style \in DrawingStyle :
        /\ drawing_style' = style
        /\ edErr' = "none"
        /\ Handled("style", NoMouse)
        /\ items_changed' = FALSE
        /\ UNCHANGED <<changed, edItems, redo_items, mouse_pressed, previous_point,
                       scene, shapes, inProgress, rt>>

\* ------------------------------------------------------------ MainWindow

\* The page of the screenshot list, tab 0 (line 561); the pages of the
\* editors are named by the path of their image.
ListTab == 0
\* The buttons of the question of close_tab (line 633).
Responses == {"Save", "Discard", "Cancel"}
NoClose == [index |-> -1, page |-> ListTab, asked |-> FALSE, response |-> "none",
            result |-> FALSE, saved |-> FALSE, closing |-> FALSE]

\* MainWindow.__init__ (lines 484, 546-561): the list is the only tab.
WindowInit ==
    /\ tab_widget = <<ListTab>>
    /\ screenshot_tabs = <<>>
    /\ currentIndex = 0
    /\ edChanged = [p \in Paths |-> FALSE]
    /\ wnd = "open"
    /\ closeTodo = <<>>
    /\ lastClose = NoClose

\* tab_widget.indexOf(page)
IndexOf(page) == (CHOOSE i \in DOMAIN tab_widget : tab_widget[i] = page) - 1
\* tab_widget.widget(index)
PageAt(index) == tab_widget[index + 1]

\* The current index after removeTab(index): the tab to the right takes the
\* place of a removed current tab, the one to the left if it was the last.
IndexAfterRemove(index) ==
    IF index < currentIndex THEN currentIndex - 1
    ELSE IF index = currentIndex /\ index = Len(tab_widget) - 1 THEN index - 1
    ELSE currentIndex

\* The call returns False and closes nothing.
Refused(index, asked, response) ==
    /\ lastClose' = [index |-> index, page |-> PageAt(index), asked |-> asked,
                     response |-> response, result |-> FALSE, saved |-> FALSE,
                     closing |-> wnd = "asking"]
    /\ UNCHANGED <<tab_widget, screenshot_tabs, currentIndex, edChanged>>

\* close_tab, lines 640-649: the entry of screenshot_tabs is deleted and the
\* tab removed; save() (line 639) has cleared the changed flag before.
Removed(index, asked, response) ==
    /\ lastClose' = [index |-> index, page |-> PageAt(index), asked |-> asked,
                     response |-> response, result |-> TRUE,
                     saved |-> (asked /\ response = "Save"),
                     closing |-> wnd = "asking"]
    /\ edChanged' = [edChanged EXCEPT ![PageAt(index)] = FALSE]
    /\ screenshot_tabs' = Without(screenshot_tabs, PageAt(index))
    /\ tab_widget' = SeqWithout(tab_widget, index + 1)
    /\ currentIndex' = IndexAfterRemove(index)

\* A close_tab that goes on to close the tab when the answer is Cancel.
close_tab_despite_cancel(index, response) ==
    IF index = 0
    THEN Refused(index, FALSE, "none")
    ELSE IF edChanged[PageAt(index)]
    THEN Removed(index, TRUE, response)
    ELSE Removed(index, FALSE, "none")

\* close_tab (lines 625-649); response is the answer to the question, asked
\* if the editor's changed flag is set.
close_tab(index, response) ==
    IF index = 0
    THEN Refused(index, FALSE, "none")
    ELSE IF edChanged[PageAt(index)]
    THEN IF response = "Cancel"
         THEN Refused(index, TRUE, response)
         ELSE Removed(index, TRUE, response)
    ELSE Removed(index, FALSE, "none")

\* close_current (lines 618-623)
close_current(response) ==
    IF currentIndex = 0
    THEN Refused(0, FALSE, "none")
    ELSE close_tab(currentIndex, response)

WindowFrame == UNCHANGED <<appVars, editorVars>>

\* open_screenshot (lines 594-603) for an image of the list.
OpenScreenshot ==
    \E p \in Paths :
        /\ wnd = "open"
        /\ IF p \in Ids(screenshot_tabs)
           THEN /\ currentIndex' = IndexOf(p)
                /\ UNCHANGED <<tab_widget, screenshot_tabs>>
           ELSE /\ screenshot_tabs' = Append(screenshot_tabs, p)
                /\ tab_widget' = Append(tab_widget, p)
                /\ currentIndex' = Len(tab_widget)
        /\ lastClose' = NoClose
        /\ UNCHANGED <<edChanged, wnd, closeTodo>>
        /\ WindowFrame

\* The user selects a tab.
SelectTab ==
    \E index \in 0..(Len(tab_widget) - 1) :
        /\ wnd = "open"
        /\ index # currentIndex
        /\ currentIndex' = index
        /\ lastClose' = NoClose
        /\ UNCHANGED <<tab_widget, screenshot_tabs, edChanged, wnd, closeTodo>>
        /\ WindowFrame

\* The user draws in the current editor: mouseMoveEvent sets its changed flag
\* (lines 130, 136).
EditorDraws ==
    /\ wnd = "open"
    /\ currentIndex # 0
    /\ edChanged' = [edChanged EXCEPT ![PageAt(currentIndex)] = TRUE]
    /\ lastClose' = NoClose
    /\ UNCHANGED <<tab_widget, screenshot_tabs, currentIndex, wnd, closeTodo>>
    /\ WindowFrame

\* edit_save (lines 705-706) on the current editor.
EditSave ==
    /\ wnd = "open"
    /\ currentIndex # 0
    /\ edChanged' = [edChanged EXCEPT ![PageAt(currentIndex)] = FALSE]
    /\ lastClose' = NoClose
    /\ UNCHANGED <<tab_widget, screenshot_tabs, currentIndex, wnd, closeTodo>>
    /\ WindowFrame

\* tabCloseRequested (line 550) or a middle click on a tab (lines 664-673).
CloseTab ==
    \E index \in 0..(Len(tab_widget) - 1), response \in Responses :
        /\ wnd = "open"
        /\ close_tab(index, response)
        /\ UNCHANGED <<wnd, closeTodo>>
        /\ WindowFrame

\* closeEvent, line 652: the loop starts over a copy of the keys.
CloseEventBegin ==
    /\ wnd = "open"
    /\ wnd' = "closing"
    /\ closeTodo' = screenshot_tabs
    /\ lastClose' = NoClose
    /\ UNCHANGED <<tab_widget, screenshot_tabs, currentIndex, edChanged>>
    /\ WindowFrame

\* closeEvent, lines 653-656: one key of the loop.  An editor without changes
\* is passed over; the editor of a changed image is made the current tab.
CloseEventStep ==
    /\ wnd = "closing" /\ closeTodo # <<>>
    /\ IF edChanged[Head(closeTodo)]
       THEN /\ currentIndex' = IndexOf(Head(closeTodo))
            /\ wnd' = "asking"
            /\ UNCHANGED closeTodo
       ELSE /\ closeTodo' = Tail(closeTodo)
            /\ UNCHANGED <<currentIndex, wnd>>
    /\ lastClose' = NoClose
    /\ UNCHANGED <<tab_widget, screenshot_tabs, edChanged>>
    /\ WindowFrame

\* closeEvent, lines 658-660: close_current is called for that editor; when
\* it returns False the event is ignored and the window stays open.
CloseEventAnswer ==
    \E response \in Responses :
        /\ wnd = "asking"
        /\ close_current(response)
        /\ IF lastClose'.result
           THEN /\ wnd' = "closing"
                /\ closeTodo' = Tail(closeTodo)
           ELSE /\ wnd' = "open"
                /\ closeTodo' = <<>>
        /\ WindowFrame

\* closeEvent, line 662: event.accept().
CloseEventEnd ==
    /\ wnd = "closing" /\ closeTodo = <<>>
    /\ wnd' = "closed"
    /\ lastClose' = NoClose
    /\ UNCHANGED <<tab_widget, screenshot_tabs, currentIndex, edChanged, closeTodo>>
    /\ WindowFrame

\* ---------------------------------------------------------- specification

\* ScreenshotList.__init__ after line 280, about to call load_screenshots:
\* Config is loaded, nothing is on disk yet.
Init ==
    /\ now = 0
    /\ disk = [p \in Paths |-> Absent]
    /\ listFile = NoFile
    /\ fsOps = 0
    /\ cfgFolderUse \in BOOLEAN
    /\ cfgListUse \in BOOLEAN
    /\ items = <<>>
    /\ old_filelist = {}
    /\ watches = {}
    /\ started = FALSE
    /\ queue = <<>>
    /\ reloads = 0
    /\ ctx = "ctor"
    /\ mpc = "load"
    /\ mret = "walk"
    /\ mArg = 0
    /\ mItem = NoItem
    /\ scanNow = 0
    /\ walkTodo = {}
    /\ addTodo = {}
    /\ remTodo = {}
    /\ mainError = "none"
    /\ wpc = "idle"
    /\ wCalls = <<>>
    /\ wItem = NoItem
    /\ hnd = FolderHandler
    /\ hLog = <<>>
    /\ hErr = FALSE
    /\ hEvent = NoEvent
    /\ EditorInit
    /\ WindowInit

Next ==
    \/ FsCreate \/ FsModify \/ FsDelete \/ FsMove \/ FsMkdir \/ FsWriteList \/ Tick
    \/ SettingsAccepted
    \/ LoadStart \/ WalkStep \/ MainAddFile \/ MainAddItem
    \/ FilelistCheck \/ UpdateFromFilelist \/ UpdateAdded \/ UpdateRemoved
    \/ ReloadFileWatcher
    \/ ObserverDispatch \/ ObserverCall \/ ObserverAddItem

Spec == Init /\ [][Next]_vars


\* ------------------------------- the list source alone (folder source off)

\* The program started with the folder source disabled ...
InitList == Init /\ ~cfgFolderUse

\* ... and every settings dialog leaves it disabled.
SettingsAcceptedList == SettingsAccepted /\ ~cfgFolderUse'

NextList ==
    \/ FsCreate \/ FsModify \/ FsDelete \/ FsWriteList \/ Tick
    \/ SettingsAcceptedList
    \/ LoadStart \/ MainAddFile \/ MainAddItem
    \/ FilelistCheck \/ UpdateFromFilelist \/ UpdateAdded \/ UpdateRemoved
    \/ ReloadFileWatcher

SpecList == InitList /\ [][NextList]_vars

\* --------------------------------- WatchdogFilesystemHandler on its own

\* The callables a handler can be constructed with; each parameter defaults
\* to None (line 187).
Handlers ==
    [on_created : {None, "created_cb"},
     on_deleted : {None, "deleted_cb"},
     on_modified : {None, "modified_cb"}]

RECURSIVE MadeCalls(_)
\* The calls made before the first call of None, which raises TypeError.
MadeCalls(calls) ==
    IF calls = <<>> \/ Head(calls).fn = None THEN <<>>
    ELSE <<Head(calls)>> \o MadeCalls(Tail(calls))

CallRaises(calls) == \E i \in DOMAIN calls : calls[i].fn = None

\* The handler method runs for the event: the calls it makes, and whether it raises.
Delivered(event) ==
    /\ hLog' = MadeCalls(Dispatch(hnd, event))
    /\ hErr' = CallRaises(Dispatch(hnd, event))
    /\ UNCHANGED <<listVars, envVars, cfgVars, obsVars, mainVars, watcherVars, editorVars, windowVars, hnd>>

HandleCreated ==
    \E p \in Paths, d \in BOOLEAN :
        /\ hEvent' = [kind |-> "created", is_directory |-> d, src_path |-> p, dest_path |-> 0]
        /\ Delivered(hEvent')

HandleDeleted ==
    \E p \in Paths, d \in BOOLEAN :
        /\ hEvent' = [kind |-> "deleted", is_directory |-> d, src_path |-> p, dest_path |-> 0]
        /\ Delivered(hEvent')

HandleModified ==
    \E p \in Paths, d \in BOOLEAN :
        /\ hEvent' = [kind |-> "modified", is_directory |-> d, src_path |-> p, dest_path |-> 0]
        /\ Delivered(hEvent')

HandleMoved ==
    \E p \in Paths, q \in Paths, d \in BOOLEAN :
        /\ p # q
        /\ hEvent' = [kind |-> "moved", is_directory |-> d, src_path |-> p, dest_path |-> q]
        /\ Delivered(hEvent')

InitHandler ==
    /\ now = 0
    /\ disk = [p \in Paths |-> Absent]
    /\ listFile = NoFile
    /\ fsOps = 0
    /\ cfgFolderUse = FALSE
    /\ cfgListUse = FALSE
    /\ items = <<>>
    /\ old_filelist = {}
    /\ watches = {}
    /\ started = FALSE
    /\ queue = <<>>
    /\ reloads = 0
    /\ ctx = "ctor"
    /\ mpc = "load"
    /\ mret = "walk"
    /\ mArg = 0
    /\ mItem = NoItem
    /\ scanNow = 0
    /\ walkTodo = {}
    /\ addTodo = {}
    /\ remTodo = {}
    /\ mainError = "none"
    /\ wpc = "idle"
    /\ wCalls = <<>>
    /\ wItem = NoItem
    /\ hnd \in Handlers
    /\ hLog = <<>>
    /\ hErr = FALSE
    /\ hEvent = NoEvent
    /\ EditorInit
    /\ WindowInit

NextHandler == HandleCreated \/ HandleDeleted \/ HandleModified \/ HandleMoved

SpecHandler == InitHandler /\ [][NextHandler]_vars

\* One ScreenshotEditor tab; the screenshot list has no source and stays as
\* constructed.
InitEditor == Init /\ ~cfgFolderUse /\ ~cfgListUse

NextEditor ==
    \/ MousePress \/ MouseMove \/ MouseRelease
    \/ Undo \/ Redo \/ Save \/ SetDrawingStyle

SpecEditor == InitEditor /\ [][NextEditor]_vars

\* Round trips: while the editor is used, the state is recorded at a moment
\* with nothing to redo; undo is then called once for every active item and
\* redo as many times.
NoRoundTrip == [phase |-> "edit", edItems |-> <<>>, scene |-> <<>>, shapes |-> <<>>, left |-> 0]

EditorFrame ==
    UNCHANGED <<appVars, windowVars, changed, edItems, redo_items, mouse_pressed, previous_point,
                drawing_style, scene, shapes, edErr, edEvent, items_changed, inProgress>>

RoundTripBegin ==
    /\ rt.phase = "edit"
    /\ redo_items = <<>>
    /\ rt' = [phase |-> IF edItems = <<>> THEN "done" ELSE "undo",
              edItems |-> edItems, scene |-> scene, shapes |-> shapes,
              left |-> Len(edItems)]
    /\ EditorFrame

RoundTripUndo ==
    /\ rt.phase = "undo"
    /\ edit_undo
    /\ rt' = IF rt.left = 1
             THEN [rt EXCEPT !.phase = "redo", !.left = Len(rt.edItems)]
             ELSE [rt EXCEPT !.left = @ - 1]

RoundTripRedo ==
    /\ rt.phase = "redo"
    /\ edit_redo
    /\ rt' = IF rt.left = 1
             THEN [rt EXCEPT !.phase = "done", !.left = 0]
             ELSE [rt EXCEPT !.left = @ - 1]

RoundTripEnd ==
    /\ rt.phase = "done"
    /\ rt' = NoRoundTrip
    /\ EditorFrame

Editing ==
    /\ rt.phase = "edit"
    /\ \/ MousePress \/ MouseMove \/ MouseRelease \/ SetDrawingStyle

NextRoundTrip ==
    \/ Editing
    \/ RoundTripBegin \/ RoundTripUndo \/ RoundTripRedo \/ RoundTripEnd

SpecRoundTrip == InitEditor /\ [][NextRoundTrip]_vars

\* The main window with its tabs; the screenshot list has no source and
\* stays as constructed, the editors are followed by their changed flags.
NextWindow ==
    \/ OpenScreenshot \/ SelectTab \/ EditorDraws \/ EditSave \/ CloseTab
    \/ CloseEventBegin \/ CloseEventStep \/ CloseEventAnswer \/ CloseEventEnd

SpecWindow == InitEditor /\ [][NextWindow]_vars


\* ------------------------------------------------------------------ claims

HasNoDuplicates ==
    \A i \in DOMAIN items, j \in DOMAIN items : i # j => items[i].file_path # items[j].file_path

\* C1: whatever add_file and remove_file calls were made, from the interactive
\* thread and from the observer thread, no two rows have the same file_path.
C1_NoTwoItemsWithSamePath ==
    \A i \in DOMAIN items, j \in DOMAIN items :
        items[i].file_path = items[j].file_path => i = j

\* C2: the rows are ordered by timestamp descending, and rows with equal
\* timestamps by path ascending (stated for rows with distinct paths).
C2_OrderedByTimestampThenPath ==
    HasNoDuplicates =>
        \A i \in DOMAIN items, j \in DOMAIN items :
            i < j => \/ items[i].timestamp > items[j].timestamp
                     \/ /\ items[i].timestamp = items[j].timestamp
                        /\ items[i].file_path < items[j].file_path

\* C3: when a run of update_from_filelist ends (the list source being the only
\* source), the paths of the collection are exactly the paths the run read
\* from the list file that existed on disk.
C3_ReconcileYieldsListedPaths ==
    [][(mpc = "removed_files" /\ mpc' = "loaded") => PathsOf(items') = old_filelist']_vars

\* C4: when load_screenshots has read the list file and ends, every path it
\* read that is still listed and still exists has a row.
C4_LoadContainsListedPaths ==
    [][(mpc = "removed_files" /\ mpc' = "loaded")
        => \A p \in old_filelist' \cap ReadFilelist' : p \in PathsOf(items')]_vars

\* C5 (its first particular case): a step of update_from_filelist that handles
\* a path removed from the list file does not drop the row of a file that
\* exists below the watched folder.  Such a row was put there by the folder
\* source: after clear(), the list source adds only paths that are listed.
C5_ListRemovalKeepsFolderRows ==
    [][(mpc = "removed_files" /\ remTodo' # remTodo)
        => \A p \in PathsOf(items) :
              (InFolder(p) /\ disk[p] # Absent) => p \in PathsOf(items')]_vars

\* The interactive thread is inside add_file (its item built, not yet added)
\* or inside update_from_filelist.
MainInMutation == mpc \in {"add_item", "added_files", "removed_files"}
\* The observer thread is inside add_file.
ObserverInMutation == wpc = "add_item"

\* C6: add_file, remove_file and update_from_filelist never run on both
\* threads at the same time.
C6_MutationsSerialized == ~(MainInMutation /\ ObserverInMutation)

\* reload_file_watcher has run (to its end or to an exception) since the
\* configuration was last set.
WatcherSetupRan ==
    /\ mpc \in {"idle", "crashed"}
    /\ mainError \in {"none", "update_filelist", "observer_start"}

\* C7: once the watcher setup has run with the list source enabled, a watch
\* for the list file is scheduled.
C7_ListWatchRegistered == (WatcherSetupRan /\ cfgListUse) => "list" \in watches

\* C8: no row is ever inserted for a file whose image cannot be decoded.
C8_NoRowForUndecodableFile == \A i \in DOMAIN items : items[i].image_ok

\* C9: no watcher callback and no per-file step of load_screenshots ends in an
\* unhandled exception: the observer thread stays alive and load_screenshots
\* is not left by a FileNotFoundError.
C9_NoUnhandledError ==
    /\ wpc # "dead"
    /\ mainError \notin {"getmtime_walk", "getmtime_load"}

\* The callbacks the claim expects for a move: deleted(old path), then
\* created(new path), each if the handler was constructed with it.
ExpectedMoveCalls(h, event) ==
    (IF h.on_deleted = None THEN <<>> ELSE <<Call(h.on_deleted, event.src_path)>>)
    \o (IF h.on_created = None THEN <<>> ELSE <<Call(h.on_created, event.dest_path)>>)

\* C10: a move of a file delivers deleted(old path) then created(new path),
\* whichever callbacks the handler was constructed with, and an event about a
\* directory delivers nothing.
C10_MoveIsDeletedThenCreated ==
    /\ (hEvent.kind = "moved" /\ ~hEvent.is_directory)
          => (~hErr /\ hLog = ExpectedMoveCalls(hnd, hEvent))
    /\ hEvent.is_directory => hLog = <<>>

\* C11: reload_file_watcher can be called any number of times (at
\* construction and after each settings change): each call completes without
\* error and leaves the observer running with one watch per configured root.
\* Stated for configurations without the list source, whose setup fails for
\* the reason of C7.
C11_ReloadFileWatcherIdempotent ==
    (WatcherSetupRan /\ ~cfgListUse)
        => /\ mainError = "none"
           /\ started
           /\ watches = (IF cfgFolderUse THEN {"folder"} ELSE {})

\* C12: after the pointer gestures that created the active operations, undo
\* called once per operation and then redo called as many times leave the
\* same active operations in the same order, in the list and in the scene,
\* with the geometry they had, and nothing to redo.
C12_UndoRedoRoundTrip ==
    rt.phase = "done"
        => /\ edItems = rt.edItems
           /\ scene = rt.scene
           /\ shapes = rt.shapes
           /\ redo_items = <<>>

\* A round trip over two operations has completed.
C12_Witness == rt.phase = "done" /\ Len(rt.edItems) >= 2

\* The items created so far that are neither active nor on the redo list.
Discarded == (1..Len(shapes)) \ (Ids(edItems) \cup Ids(redo_items))

\* C13: a pointer-down that creates an operation leaves the redo list empty,
\* redo with an empty redo list changes nothing, and an operation that is
\* neither active nor on the redo list never becomes active again.
C13_NewOperationClearsRedo ==
    [][/\ Len(shapes') > Len(shapes) => redo_items' = <<>>
       /\ (edEvent'.type = "redo" /\ redo_items = <<>>)
             => UNCHANGED <<edItems, redo_items, scene, shapes>>
       /\ \A id \in Discarded : id \notin Ids(edItems')]_vars

\* A pointer-down has created an operation after an undo: the undone
\* operation is discarded.
C13_Witness ==
    /\ edEvent.type = "press"
    /\ inProgress # 0
    /\ redo_items = <<>>
    /\ Discarded # {}

\* C14: the changed flag is true after every mutation since the last save:
\* after a pointer-down that creates an operation, after an undo and after a
\* redo that change the active operations; it is false right after save.
C14_ChangedAfterEveryMutation ==
    [][/\ edItems' # edItems => changed'
       /\ edEvent'.type = "save" => ~changed']_vars

\* C15: remove_file for a path that has no row leaves the rows and their
\* order as they are (neither takeItem nor sortItems runs, so the widget
\* reports no change).  remove_file is called by the observer thread for a
\* deleted file, by update_from_filelist for a removed line, and first thing
\* by add_file on either thread.
C15_RemoveAbsentIsNoop ==
    [][/\ (wpc = "idle" /\ wCalls # <<>> /\ wCalls' # wCalls
              /\ Head(wCalls).fn \in {"remove_file", "add_file"}
              /\ Head(wCalls).arg \notin PathsOf(items))
          => items' = items
       /\ (mpc = "removed_files" /\ remTodo' # remTodo
              /\ (remTodo \ remTodo') \cap PathsOf(items) = {})
          => items' = items
       /\ (mpc = "add_file" /\ mpc' # mpc /\ mArg \notin PathsOf(items))
          => items' = items]_vars

\* During the constructor's walk of the folder (the observer not started,
\* every file walked once) add_file has called remove_file for a file that has
\* no row while another file has one.
C15_Witness ==
    /\ ~started /\ ctx = "ctor"
    /\ mpc = "add_item" /\ mret = "walk"
    /\ items # <<>>
    /\ mArg \notin PathsOf(items)

\* The gesture in progress began with a pointer-down under the style NONE.
NoneGesture == mouse_pressed /\ inProgress = 0

\* C16: a pointer-down over the image while the drawing style is NONE is no
\* transition: mouse_pressed stays false and no operation is created; and no
\* pointer-move that follows it modifies an operation or fails.
C16_NoneStyleIsInert ==
    [][/\ (edEvent'.type = "press" /\ edEvent'.over /\ drawing_style = "none" /\ ~mouse_pressed)
          => (~mouse_pressed' /\ UNCHANGED <<edItems, redo_items, scene, shapes>>)
       /\ (NoneGesture /\ edEvent'.type = "move")
          => (shapes' = shapes /\ edErr' = "none")]_vars

\* The operation extended from the anchor to a point according to its own
\* kind: a segment more for a pen stroke, the rectangle anchor-to-point for an
\* ellipse or a rectangle.
ExtendedByKind(shape, from, to) ==
    IF shape.kind = "pen"
    THEN addToGroup(shape, from, to)
    ELSE setRect(shape, from[1], from[2], to[1] - from[1], to[2] - from[2])

\* A pointer-move over the image reaches the editor while the operation the
\* gesture's pointer-down created is the last active one.
MoveInGesture ==
    /\ mouse_pressed /\ inProgress # 0
    /\ edItems # <<>> /\ Last(edItems) = inProgress
    /\ edEvent'.type = "move" /\ edEvent'.over

\* C17: the operation in progress keeps its kind, and every pointer-move of
\* its gesture extends it according to that kind, whatever set_drawing_style
\* was called with since the pointer-down.
C17_StyleChangeKeepsKind ==
    [][MoveInGesture
          => /\ edErr' = "none"
             /\ \E p \in Points :
                   shapes'[inProgress] = ExtendedByKind(shapes[inProgress], previous_point, p)]_vars

\* C18: a pointer-up while a gesture is in progress, over the image or
\* outside it, ends the gesture (mouse_pressed becomes false) and leaves the
\* active operations, the scene and every geometry as they were.
C18_ReleaseEndsGesture ==
    [][(mouse_pressed /\ edEvent'.type = "release")
          => /\ ~mouse_pressed'
             /\ UNCHANGED <<edItems, redo_items, scene, shapes, changed>>]_vars

\* A gesture that drew a pen stroke has been ended by a pointer-up outside
\* the image.
C18_Witness ==
    /\ edEvent.type = "release" /\ edEvent.pressed /\ ~edEvent.over
    /\ ~mouse_pressed
    /\ edItems # <<>> /\ shapes[Last(edItems)].lines # <<>>

\* The gesture's operation is the last active one and the drawing style is
\* still the one it was begun with.
GestureIntact ==
    /\ mouse_pressed /\ inProgress # 0
    /\ edItems # <<>> /\ Last(edItems) = inProgress
    /\ drawing_style = shapes[inProgress].kind

Min(a, b) == IF a <= b THEN a ELSE b
Abs(a) == IF a < 0 THEN -a ELSE a
\* The rectangle spanned by an anchor and a point, with its origin at the
\* smaller coordinates and sizes that are not negative.
NormalizedRect(a, p) ==
    <<Min(a[1], p[1]), Min(a[2], p[2]), Abs(p[1] - a[1]), Abs(p[2] - a[2])>>

\* C20: an ellipse or rectangle begun at an anchor and extended to a point is
\* stored as the rectangle with origin (min x, min y), width |px - ax| and
\* height |py - ay|: the sizes are never negative.
C20_GeometryNormalized ==
    [][(GestureIntact /\ shapes[inProgress].kind \in {"ellipse", "rect"}
            /\ edEvent'.type = "move" /\ edEvent'.over)
          => /\ \E p \in Points : shapes'[inProgress].rect = NormalizedRect(previous_point, p)
             /\ shapes'[inProgress].rect[3] >= 0
             /\ shapes'[inProgress].rect[4] >= 0]_vars

\* C21: undo and redo never discard an operation: each call leaves the
\* operations held by items and redo_items together the same; undo without an
\* active operation and redo without an undone one change nothing and do not
\* emit items_changed.
C21_UndoRedoKeepOperations ==
    [][/\ edEvent'.type \in {"undo", "redo"}
          => /\ Len(edItems') + Len(redo_items') = Len(edItems) + Len(redo_items)
             /\ Ids(edItems') \cup Ids(redo_items') = Ids(edItems) \cup Ids(redo_items)
             /\ shapes' = shapes
       /\ ((edEvent'.type = "undo" /\ edItems = <<>>) \/ (edEvent'.type = "redo" /\ redo_items = <<>>))
          => /\ UNCHANGED <<edItems, redo_items, scene, shapes, changed>>
             /\ ~items_changed']_vars

\* An undo has moved an operation to the redo list while another stays active.
C21_Witness ==
    /\ edEvent.type = "undo" /\ items_changed
    /\ edItems # <<>> /\ redo_items # <<>>

\* C24: items and redo_items have no operation in common, and the scene
\* holds exactly the operations of items, in creation order, and none of
\* redo_items: render_to_image paints the active operations only.
C24_SceneHoldsActiveItems ==
    /\ Ids(edItems) \cap Ids(redo_items) = {}
    /\ scene = edItems
    /\ Ids(scene) \cap Ids(redo_items) = {}
    /\ \A i, j \in DOMAIN edItems : i < j => edItems[i] < edItems[j]

\* A redo has put one of two undone operations back.
C24_Witness ==
    /\ edEvent.type = "redo" /\ items_changed
    /\ edItems # <<>> /\ redo_items # <<>>

\* C25: a pointer-move modifies no operation but the one the pointer-down of
\* the current gesture created, whatever undo, redo and set_drawing_style
\* calls come between the pointer events, and the move handler never reads
\* the last element of an empty items list.
C25_MoveTouchesOwnOperationOnly ==
    [][edEvent'.type = "move"
          => /\ edErr' # "IndexError"
             /\ \A id \in DOMAIN shapes : id # inProgress => shapes'[id] = shapes[id]]_vars

\* The paths other than p have a row after the step exactly if they had one.
OthersKeepMembership(p) ==
    \A q \in Paths \ {p} : (q \in PathsOf(items')) <=> (q \in PathsOf(items))

\* C22: for the events of the watched folder applied in delivery order, the
\* path of an applied event has a row afterwards for Created and Modified of
\* an existing file and none for Deleted, and applying an event leaves the
\* membership of every other path as it is, so a path's membership is that of
\* the last event applied to it.
C22_MembershipFollowsLastEvent ==
    [][/\ (wpc = "idle" /\ wCalls # <<>> /\ wCalls' # wCalls /\ Head(wCalls).fn = "remove_file")
          => /\ Head(wCalls).arg \notin PathsOf(items')
             /\ OthersKeepMembership(Head(wCalls).arg)
       /\ (wpc = "idle" /\ wCalls # <<>> /\ wCalls' # wCalls /\ Head(wCalls).fn = "add_file")
          => OthersKeepMembership(Head(wCalls).arg)
       /\ (wpc = "add_item" /\ wpc' = "idle")
          => /\ wItem.file_path \in PathsOf(items')
             /\ OthersKeepMembership(wItem.file_path)]_vars

\* C23: the freshness window applies to the scan of load_screenshots only.
\* The scan hands a file of the folder to add_file exactly when its
\* modification time is not older than the scan time minus 86400, and that
\* add_file inserts its row; the add_file of a live event builds and inserts
\* the row of an existing file whatever its age; and a path loses its rows by
\* the clear() of a load or by a remove_file for that path only, never by the
\* passing of time.
C23_WindowAppliesToScanOnly ==
    [][/\ (mpc = "walk" /\ walkTodo' # walkTodo /\ disk[CHOOSE f \in walkTodo : f \notin walkTodo'] # Absent)
          => LET f == CHOOSE f \in walkTodo : f \notin walkTodo' IN
             IF disk[f] >= scanNow - 86400
             THEN mpc' = "add_file" /\ mArg' = f
             ELSE mpc' = "walk" /\ items' = items
       /\ (mpc = "add_item" /\ mpc' # mpc) => mItem.file_path \in PathsOf(items')
       /\ (wpc = "idle" /\ wCalls # <<>> /\ wCalls' # wCalls
              /\ Head(wCalls).fn = "add_file" /\ disk[Head(wCalls).arg] # Absent)
          => /\ wpc' = "add_item"
             /\ wItem'.file_path = Head(wCalls).arg
       /\ (wpc = "add_item" /\ wpc' = "idle") => wItem.file_path \in PathsOf(items')
       /\ \A p \in PathsOf(items) \ PathsOf(items') :
             \/ mpc = "load"
             \/ mpc = "add_file" /\ mArg = p
             \/ mpc = "removed_files" /\ p \in remTodo
             \/ wpc = "idle" /\ wCalls # <<>> /\ Head(wCalls).arg = p
       /\ now' # now => items' = items]_vars

\* The observer thread's add_file has built the row of a file that is older
\* than the window.
C23_Witness ==
    /\ wpc = "add_item"
    /\ wItem.timestamp < now - FreshnessWindow

\* The pages of the editors whose tab is open.
OpenEditors == Ids(tab_widget) \ {ListTab}

\* C26: the tab of an editor whose changed flag is set is removed only by a
\* close_tab whose question was answered Save (save() is then called first)
\* or Discard; answered Cancel, close_tab returns False, the tab and its
\* entry in screenshot_tabs stay, and a closeEvent in progress is ignored with
\* every remaining editor left open; the list tab is never closed, and the
\* window closes with no changed editor left.
C26_ChangedTabClosedOnlyOnAnswer ==
    /\ [][/\ \A p \in OpenEditors :
                (edChanged[p] /\ p \notin Ids(tab_widget'))
                   => /\ lastClose'.page = p /\ lastClose'.asked
                      /\ lastClose'.response \in {"Save", "Discard"}
                      /\ lastClose'.response = "Save" => lastClose'.saved
          /\ (lastClose'.asked /\ lastClose'.response = "Cancel")
                => /\ ~lastClose'.result
                   /\ UNCHANGED <<tab_widget, screenshot_tabs, edChanged>>
                   /\ wnd' = "open"]_vars
    /\ [](/\ tab_widget[1] = ListTab
          /\ Ids(screenshot_tabs) = OpenEditors
          /\ wnd = "closed" => \A p \in OpenEditors : ~edChanged[p])

\* closeEvent's question for a changed editor was answered Cancel: the
\* editor's tab is still open and current, and the window stays open.
C26_Witness ==
    /\ wnd = "open"
    /\ lastClose.closing
    /\ lastClose.asked /\ lastClose.response = "Cancel"
    /\ lastClose.index = currentIndex
    /\ \E p \in OpenEditors :
          edChanged[p] /\ IndexOf(p) = currentIndex /\ p \in Ids(screenshot_tabs)

====
